---- MODULE Spec2Model ----
(***************************************************************************)
(* Model of ExampleApplication::main (src/src/application.rs, 176-239):    *)
(* the model-directory scan, the engine load, the audio decode, the        *)
(* linear-interpolation resampling to 16 kHz and the transcription.        *)
(*                                                                         *)
(* main is one straight-line function; pc is the position inside it.       *)
(* Every `expect`, `unwrap` and `assert_eq!` of the function is a panic,   *)
(* modelled as the step to pc = "failed".                                  *)
(*                                                                         *)
(* The resampling branch drives three library objects that main builds at  *)
(* lines 224-231: dasp_interpolate::linear::Linear, dasp_signal::from_iter *)
(* and dasp_signal::interpolate::Converter.  Their operators below follow  *)
(* the dasp 0.11 implementations named in each comment.                    *)
(***************************************************************************)
EXTENDS Integers, Sequences, FiniteSets

-----------------------------------------------------------------------------
(* Bounds of the model *)

\* longest directory enumeration
MaxEntries == 3
\* longest decoded sample sequence
MaxLen == 3

-----------------------------------------------------------------------------
(* Program constants *)

\* const SAMPLE_RATE: u32 = 16_000
SAMPLE_RATE == 16000

\* i16 range of the samples (Vec<i16>, Linear::new([0i16], [0]))
I16_MIN == -32768
I16_MAX == 32767

-----------------------------------------------------------------------------
(* Inputs: the model directory *)

\* Path::extension() of an entry: "" stands for None (no extension)
ModelExts == {"pb", "pbmm", "tflite"}
Exts == ModelExts \cup {"scorer", "txt", ""}

\* a directory entry as read_dir yields it: Err(_), or Ok(f) with f.path()
\* a regular file or not
ErrEntry == [kind |-> "err", name |-> "", ext |-> ""]
FileEntries ==
    [kind : {"file"}, name : {"a", "b"}, ext : ModelExts \cup {"scorer"}]
        \cup [kind : {"file"}, name : {"a"}, ext : {"txt", ""}]
DirEntries == [kind : {"dir"}, name : {"d"}, ext : {"pb", "scorer"}]
EntryVals == {ErrEntry} \cup FileEntries \cup DirEntries

\* the path of an Ok entry (dir_path joined with the file name)
PathOf(e) == [name |-> e.name, ext |-> e.ext]

\* dir_path.join("output_graph.pb")
FallbackPath == [name |-> "output_graph", ext |-> "pb"]

NoPath == [name |-> "", ext |-> "none"]

SeqsUpTo(S, n) == UNION {[1..k -> S] : k \in 0..n}

\* the names of one directory are distinct
DistinctPaths(es) ==
    \A i, j \in 1..Len(es) :
        (i # j /\ es[i].kind # "err" /\ es[j].kind # "err")
            => PathOf(es[i]) # PathOf(es[j])

AllDirs == {es \in SeqsUpTo(EntryVals, MaxEntries) : DistinctPaths(es)}

SmallDirs ==
    { <<>>,
      <<[kind |-> "file", name |-> "a", ext |-> "pbmm"]>>,
      <<[kind |-> "file", name |-> "a", ext |-> "scorer"],
        [kind |-> "file", name |-> "a", ext |-> "pb"]>> }

-----------------------------------------------------------------------------
(* Inputs: the audio file *)

\* declared channel counts and sample rates (desc.channel_count(),
\* desc.sample_rate()).  Every rate is a multiple of SAMPLE_RATE / 4, so
\* source_hz / target_hz and the sums of it the Converter forms are exact in
\* f64, and the rational arithmetic below is the f64 arithmetic of the code.
Channels == {0, 1, 2}
Rates == {0, 4000, 8000, 12000, SAMPLE_RATE, 24000, 32000, 48000}

SampleVals == {I16_MIN, -3, 0, I16_MAX}

\* bad = i > 0: reading the i-th sample yields Err (s.unwrap() panics)
AudioOf(ch, rate, s, bad) ==
    [channels |-> ch, rate |-> rate, samples |-> s, bad |-> bad]

AllAudio ==
    { AudioOf(ch, r, s, b) :
        ch \in Channels, r \in Rates, s \in SeqsUpTo(SampleVals, MaxLen),
        b \in {0, 2} }

SmallAudio ==
    { AudioOf(1, SAMPLE_RATE, <<-3, 0>>, 0),
      AudioOf(1, 8000, <<-3>>, 0),
      AudioOf(2, 8000, <<-3>>, 0),
      AudioOf(1, 8000, <<-3, 0>>, 2) }

\* every channel count and rate, with short sample sequences
FairAudio ==
    { AudioOf(ch, r, s, b) :
        ch \in Channels, r \in Rates, s \in SeqsUpTo({-3}, 2),
        b \in {0, 2} }

Transcripts == {"hello", "hello world"}

-----------------------------------------------------------------------------
VARIABLES
    pc,          \* position in main
    argc,        \* number of positional arguments given to the process
    entries,     \* what dir_path.read_dir() enumerates, in order
    idx,         \* number of entries the for loop has consumed
    graph_name,  \* let mut graph_name: Box<Path>
    scorer_name, \* let mut scorer_name: Option<Box<Path>> (NoPath = None)
    engine,      \* m: the path load_from_files was called with, and the scorer
    audio,       \* the audio file behind audio_file_path
    srcPos,      \* number of items pulled from reader.samples()
    srcNext,     \* FromIterator.next: Option<[i16; 1]>
    interp,      \* Linear { left, right }
    ival,        \* Converter.interpolation_value, in units of 1/SAMPLE_RATE
    audio_buf,   \* the Vec being collected
    sttArg,      \* the buffers speech_to_text was called with
    result,      \* let result
    stdout,      \* lines written to standard output
    panicMsg     \* which expect, unwrap or assert panicked ("" = none)

vars == <<pc, argc, entries, idx, graph_name, scorer_name, engine, audio,
          srcPos, srcNext, interp, ival, audio_buf, sttArg, result, stdout,
          panicMsg>>

scanVars == <<idx, graph_name, scorer_name>>
convVars == <<srcPos, srcNext, interp, ival, audio_buf>>
envVars == <<argc, entries, audio>>

NoEngine == [graph |-> NoPath, scorer |-> NoPath]

\* Option values
None == [tag |-> "none", v |-> 0]
Some(x) == [tag |-> "some", v |-> x]
\* an item of reader.samples() that is Err
ErrItem == [tag |-> "err", v |-> 0]

\* the process is started with 0, 1 or 2 positional arguments; the directory
\* and the audio file are only consulted when both are given
InitWith(dirs, audios) ==
    /\ pc = "arg1"
    /\ \/ /\ argc \in {0, 1}
          /\ entries = <<>>
          /\ audio = AudioOf(1, SAMPLE_RATE, <<>>, 0)
       \/ /\ argc = 2
          /\ entries \in dirs
          /\ audio \in audios
    /\ idx = 0
    /\ graph_name = NoPath
    /\ scorer_name = NoPath
    /\ engine = NoEngine
    /\ srcPos = 0
    /\ srcNext = None
    /\ interp = [left |-> 0, right |-> 0]
    /\ ival = 0
    /\ audio_buf = <<>>
    /\ sttArg = <<>>
    /\ result = ""
    /\ stdout = <<>>
    /\ panicMsg = ""

\* control moves on to position `to`
Goto(to) == pc' = to /\ UNCHANGED panicMsg

\* a panic: the process aborts with the message
Panic(msg) == pc' = "failed" /\ panicMsg' = msg

\* Expect trying the same step again instead of panicking
Expect_Retry(ok, to, msg) == IF ok THEN Goto(to) ELSE UNCHANGED <<pc, panicMsg>>

\* `.expect(msg)` / `.unwrap()` / `assert!` on a condition
Expect(ok, to, msg) == IF ok THEN Goto(to) ELSE Panic(msg)

Init == InitWith(AllDirs, SmallAudio)

-----------------------------------------------------------------------------
(* Arguments and directory scan, lines 178-202 *)

\* args().nth(1).expect("Please specify model dir")
Arg1 ==
    /\ pc = "arg1"
    /\ Expect(argc >= 1, "arg2", "Please specify model dir")
    /\ UNCHANGED <<envVars, scanVars, engine, convVars, sttArg, result, stdout>>

\* args().nth(2).expect(...); graph_name = dir_path.join("output_graph.pb");
\* scorer_name = None
Arg2 ==
    /\ pc = "arg2"
    /\ IF argc >= 2
         THEN /\ Goto("readdir")
              /\ graph_name' = FallbackPath
              /\ scorer_name' = NoPath
         ELSE /\ Panic("Please specify an audio file to run STT on")
              /\ UNCHANGED <<graph_name, scorer_name>>
    /\ UNCHANGED <<envVars, idx, engine, convVars, sttArg, result, stdout>>

\* dir_path.read_dir().expect("Specified model dir is not a dir")
ReadDir ==
    /\ pc = "readdir"
    /\ \E ok \in BOOLEAN :
         Expect(ok, "scan", "Specified model dir is not a dir")
    /\ UNCHANGED <<envVars, scanVars, engine, convVars, sttArg, result, stdout>>

\* ScanGraph without the file_path.is_file() test
ScanGraph_NoFileCheck(e, g) ==
    IF e.kind # "err" /\ e.ext # "" /\ e.ext \in ModelExts
      THEN PathOf(e)
      ELSE g

\* ScanGraph keeping the first match instead of the last
ScanGraph_FirstWins(e, g) ==
    IF e.kind = "file" /\ e.ext # "" /\ e.ext \in ModelExts /\ g = FallbackPath
      THEN PathOf(e)
      ELSE g

\* ScanGraph taking every file that has an extension other than scorer
ScanGraph_AnyExt(e, g) ==
    IF e.kind = "file" /\ e.ext # "" /\ e.ext # "scorer"
      THEN PathOf(e)
      ELSE g

\* the body of the for loop on one entry: the new value of graph_name
ScanGraph(e, g) ==
    IF e.kind = "file" /\ e.ext # "" /\ e.ext \in ModelExts
      THEN PathOf(e)
      ELSE g

\* ScanScorer without the file_path.is_file() test
ScanScorer_NoFileCheck(e, s) ==
    IF e.kind # "err" /\ e.ext # "" /\ e.ext \notin ModelExts /\ e.ext = "scorer"
      THEN PathOf(e)
      ELSE s

\* the body of the for loop on one entry: the new value of scorer_name
ScanScorer(e, s) ==
    IF e.kind = "file" /\ e.ext # "" /\ e.ext \notin ModelExts /\ e.ext = "scorer"
      THEN PathOf(e)
      ELSE s

\* one iteration of the for loop
ScanEntry ==
    /\ pc = "scan"
    /\ idx < Len(entries)
    /\ idx' = idx + 1
    /\ graph_name' = ScanGraph(entries[idx + 1], graph_name)
    /\ scorer_name' = ScanScorer(entries[idx + 1], scorer_name)
    /\ UNCHANGED <<pc, panicMsg, envVars, engine, convVars, sttArg, result, stdout>>

\* the iterator is exhausted: the loop ends
ScanEnd ==
    /\ pc = "scan"
    /\ idx = Len(entries)
    /\ Goto("load")
    /\ UNCHANGED <<envVars, scanVars, engine, convVars, sttArg, result, stdout>>

-----------------------------------------------------------------------------
(* Engine construction, lines 203-208 *)

\* Model::load_from_files(&graph_name).unwrap()
LoadModel ==
    /\ pc = "load"
    /\ engine' = [graph |-> graph_name, scorer |-> NoPath]
    /\ \E ok \in BOOLEAN :
         Expect(ok, "scorer", "load_from_files")
    /\ UNCHANGED <<envVars, scanVars, convVars, sttArg, result, stdout>>

\* println!("Using external scorer `{}`", scorer.to_str().unwrap())
\* (the line's fixed text, and the path formatted into it)
ScorerLine(p) == [fmt |-> "Using external scorer", path |-> p, text |-> ""]

\* ResultLine printing with the Debug format
ResultLine_Debug(t) == [fmt |-> "{:?}", path |-> NoPath, text |-> t]

\* println!("{}", result)
ResultLine(t) == [fmt |-> "{}", path |-> NoPath, text |-> t]

\* if let Some(scorer) = scorer_name { println!(..); m.enable_external_scorer(..).unwrap() }
EnableScorer ==
    /\ pc = "scorer"
    /\ IF scorer_name = NoPath
         THEN /\ Goto("open")
              /\ UNCHANGED <<engine, stdout>>
         ELSE \E outcome \in {"not_utf8", "attach_failed", "ok"} :
                CASE outcome = "not_utf8" ->
                       /\ Panic("scorer.to_str")
                       /\ UNCHANGED <<engine, stdout>>
                  [] outcome = "attach_failed" ->
                       /\ Panic("enable_external_scorer")
                       /\ stdout' = Append(stdout, ScorerLine(scorer_name))
                       /\ UNCHANGED engine
                  [] outcome = "ok" ->
                       /\ Goto("open")
                       /\ stdout' = Append(stdout, ScorerLine(scorer_name))
                       /\ engine' = [engine EXCEPT !.scorer = scorer_name]
    /\ UNCHANGED <<envVars, scanVars, convVars, sttArg, result>>

-----------------------------------------------------------------------------
(* Audio decode, lines 210-217 *)

\* File::open(audio_file_path).unwrap()
OpenAudio ==
    /\ pc = "open"
    /\ \E ok \in BOOLEAN :
         Expect(ok, "reader", "File::open")
    /\ UNCHANGED <<envVars, scanVars, engine, convVars, sttArg, result, stdout>>

\* Reader::new(audio_file).unwrap(); let desc = reader.description()
NewReader ==
    /\ pc = "reader"
    /\ \E ok \in BOOLEAN :
         Expect(ok, "chan", "Reader::new")
    /\ UNCHANGED <<envVars, scanVars, engine, convVars, sttArg, result, stdout>>

\* ChannelOk accepting any file that has a channel
ChannelOk_AtLeastOne(a) == a.channels >= 1

\* assert_eq!(1, desc.channel_count(), ...)
ChannelOk(a) == a.channels = 1

CheckChannels ==
    /\ pc = "chan"
    /\ Expect(ChannelOk(audio), "rate",
              "The channel count is required to be one, at least for now")
    /\ UNCHANGED <<envVars, scanVars, engine, convVars, sttArg, result, stdout>>

-----------------------------------------------------------------------------
(* The sample buffer, lines 220-232 *)

\* the item reader.samples() yields once pos items have been pulled
IterNext(a, pos) ==
    IF pos < Len(a.samples)
      THEN IF pos + 1 = a.bad THEN ErrItem ELSE Some(a.samples[pos + 1])
      ELSE None

\* IsPassthrough with the comparison inverted
IsPassthrough_Inverted(a) == a.rate # SAMPLE_RATE

\* if desc.sample_rate() == SAMPLE_RATE
IsPassthrough(a) == a.rate = SAMPLE_RATE

\* integer division rounding toward zero, the rounding of an `as i16` cast
TruncDiv(n, d) == IF n >= 0 THEN n \div d ELSE -((-n) \div d)

\* the saturation of an `as i16` cast
SatI16(n) == IF n < I16_MIN THEN I16_MIN ELSE IF n > I16_MAX THEN I16_MAX ELSE n

\* Linear::interpolate(x), x = xn / SAMPLE_RATE:
\*   ((r_f - l_f) * x + l_f).to_sample::<i16>()
\* with l_f = l / 32768.0, r_f = r / 32768.0 and to_sample = (v * 32768.0) as i16
Interpolate(l, r, xn) ==
    SatI16(TruncDiv(l * SAMPLE_RATE + (r - l) * xn, SAMPLE_RATE))

\* The state of the Converter built at lines 224-230, as one record:
\*   next, pos  the FromIterator source and the reader under it
\*   left, right, iv  the interpolator and the interpolation value
\*   panicked   an s.unwrap() inside the source panicked
\*   out        the frame the last call of next returned
ConvRec(nx, pos, l, r, iv, pan, out) ==
    [next |-> nx, pos |-> pos, left |-> l, right |-> r, iv |-> iv,
     panicked |-> pan, out |-> out]

\* one pull of the mapped iterator: reader.samples::<i16>().map(|s| [s.unwrap()])
PullItem(a, c) ==
    LET it == IterNext(a, c.pos) IN
      CASE it.tag = "err"  -> [c EXCEPT !.panicked = TRUE]
        [] it.tag = "some" -> [c EXCEPT !.next = it, !.pos = c.pos + 1]
        [] it.tag = "none" -> [c EXCEPT !.next = None]

\* FromIterator::next: match self.next.take() { Some(frame) => { self.next =
\* self.iter.next(); frame }, None => EQUILIBRIUM }, followed by
\* Linear::next_source_frame (left = right; right = frame) and
\* interpolation_value -= 1.0: the body of `while interpolation_value >= 1.0`
AdvanceOne(a, c) ==
    LET frame == IF c.next.tag = "some" THEN c.next.v ELSE 0
        c1 == IF c.next.tag = "some" THEN PullItem(a, c) ELSE c
    IN  IF c1.panicked
          THEN c1
          ELSE [c1 EXCEPT !.left = c.right, !.right = frame,
                          !.iv = c.iv - SAMPLE_RATE]

RECURSIVE AdvanceFrames(_, _)
AdvanceFrames(a, c) ==
    IF c.panicked \/ c.iv < SAMPLE_RATE
      THEN c
      ELSE AdvanceFrames(a, AdvanceOne(a, c))

\* Converter::next: advance the frames, interpolate, then
\* interpolation_value += source_to_target_ratio
ConverterNext(a, c) ==
    LET c1 == AdvanceFrames(a, c) IN
      IF c1.panicked
        THEN c1
        ELSE [c1 EXCEPT !.out = Interpolate(c1.left, c1.right, c1.iv),
                        !.iv = c1.iv + a.rate]

\* Converter::is_exhausted: source.is_exhausted() && interpolation_value >= 1.0
IsExhausted(c) == c.next.tag = "none" /\ c.iv >= SAMPLE_RATE

\* Linear::new([0i16], [0])
InterpInit == [left |-> 0, right |-> 0]

\* line 220, and in the else branch the construction of the Converter:
\* from_iter pulls the first item, from_hz_to_hz asserts scale > 0.0
ChooseBranch ==
    /\ pc = "rate"
    /\ IF IsPassthrough(audio)
         THEN /\ Goto("collect")
              /\ UNCHANGED convVars
         ELSE LET c == PullItem(audio, ConvRec(None, 0, 0, 0, 0, FALSE, 0)) IN
                IF c.panicked \/ audio.rate <= 0
                  THEN /\ Panic(IF c.panicked
                                  THEN "s.unwrap"
                                  ELSE "We can't yield any frames at 0 times a second!")
                       /\ UNCHANGED convVars
                  ELSE /\ Goto("conv")
                       /\ srcNext' = c.next
                       /\ srcPos' = c.pos
                       /\ interp' = InterpInit
                       /\ ival' = 0
                       /\ UNCHANGED audio_buf
    /\ UNCHANGED <<envVars, scanVars, engine, sttArg, result, stdout>>

\* reader.samples().map(|s| s.unwrap()).collect(), one item
CollectSample ==
    /\ pc = "collect"
    /\ LET it == IterNext(audio, srcPos) IN
         CASE it.tag = "err" ->
                /\ Panic("s.unwrap")
                /\ UNCHANGED convVars
           [] it.tag = "some" ->
                /\ Goto("collect")
                /\ srcPos' = srcPos + 1
                /\ audio_buf' = Append(audio_buf, it.v)
                /\ UNCHANGED <<srcNext, interp, ival>>
           [] it.tag = "none" ->
                /\ Goto("stt")
                /\ UNCHANGED convVars
    /\ UNCHANGED <<envVars, scanVars, engine, sttArg, result, stdout>>

\* conv.until_exhausted().map(|v| v[0]).collect(), one item:
\* UntilExhausted::next returns None if the signal is exhausted, else
\* Some(signal.next())
ConvertSample ==
    /\ pc = "conv"
    /\ LET c == ConvRec(srcNext, srcPos, interp.left, interp.right, ival, FALSE, 0) IN
         IF IsExhausted(c)
           THEN /\ Goto("stt")
                /\ UNCHANGED convVars
           ELSE LET c1 == ConverterNext(audio, c) IN
                  IF c1.panicked
                    THEN /\ Panic("s.unwrap")
                         /\ UNCHANGED convVars
                    ELSE /\ Goto("conv")
                         /\ srcNext' = c1.next
                         /\ srcPos' = c1.pos
                         /\ interp' = [left |-> c1.left, right |-> c1.right]
                         /\ ival' = c1.iv
                         /\ audio_buf' = Append(audio_buf, c1.out)
    /\ UNCHANGED <<envVars, scanVars, engine, sttArg, result, stdout>>

-----------------------------------------------------------------------------
(* Transcription and output, lines 235-238 *)

\* m.speech_to_text(&audio_buf).unwrap()
SpeechToText ==
    /\ pc = "stt"
    /\ sttArg' = Append(sttArg, audio_buf)
    /\ \/ /\ Panic("speech_to_text")
          /\ UNCHANGED result
       \/ /\ Goto("print")
          /\ result' \in Transcripts
    /\ UNCHANGED <<envVars, scanVars, engine, convVars, stdout>>

\* println!("{}", result); main returns
PrintResult ==
    /\ pc = "print"
    /\ stdout' = Append(stdout, ResultLine(result))
    /\ Goto("done")
    /\ UNCHANGED <<envVars, scanVars, engine, convVars, sttArg, result>>

-----------------------------------------------------------------------------
Next ==
    \/ Arg1 \/ Arg2 \/ ReadDir \/ ScanEntry \/ ScanEnd
    \/ LoadModel \/ EnableScorer
    \/ OpenAudio \/ NewReader \/ CheckChannels
    \/ ChooseBranch \/ CollectSample \/ ConvertSample
    \/ SpeechToText \/ PrintResult

\* every directory, a few audio files
Spec == Init /\ [][Next]_vars

\* a few directories, every audio file
InitAudio == InitWith(SmallDirs, AllAudio)
AudioSpec == InitAudio /\ [][Next]_vars

\* main runs to its end or to a panic: no step of it waits on anything
InitSmall == InitWith(SmallDirs, FairAudio)
FairSpec == InitSmall /\ [][Next]_vars /\ WF_vars(Next)
-----------------------------------------------------------------------------
(* Vocabulary of the properties *)

\* a regular file the scan takes for an acoustic model / for a scorer
IsModelFile(e) == e.kind = "file" /\ e.ext \in {"pb", "pbmm", "tflite"}
IsScorerFile(e) == e.kind = "file" /\ e.ext = "scorer"
IsPbFile(e) == e.kind = "file" /\ e.ext = "pb"

ModelIdx == {i \in 1..Len(entries) : IsModelFile(entries[i])}
ScorerIdx == {i \in 1..Len(entries) : IsScorerFile(entries[i])}
PbIdx == {i \in 1..Len(entries) : IsPbFile(entries[i])}

Max(S) == CHOOSE m \in S : \A x \in S : x <= m

\* the scan has ended and the engine load has not started
ScanEnded == pc = "load"

Terminal == {"done", "failed"}

\* the stage of the pipeline a position of main belongs to
StageOf(p) ==
    CASE p \in {"arg1", "arg2", "readdir", "scan"} -> "Start"
      [] p \in {"load", "scorer"}                  -> "ModelSelected"
      [] p \in {"open", "reader", "chan"}          -> "EngineLoaded"
      [] p \in {"rate", "collect", "conv"}         -> "AudioDecoded"
      [] p = "stt"                                 -> "Resampled"
      [] p = "print"                               -> "Transcribed"
      [] p = "done"                                -> "Done"
      [] p = "failed"                              -> "Failed"

StageRank(st) ==
    CASE st = "Start" -> 0
      [] st = "ModelSelected" -> 1
      [] st = "EngineLoaded" -> 2
      [] st = "AudioDecoded" -> 3
      [] st = "Resampled" -> 4
      [] st = "Transcribed" -> 5
      [] st = "Done" -> 6
      [] st = "Failed" -> 7

\* the resampling branch has produced its whole buffer
Resampled == pc = "stt" /\ audio.rate # SAMPLE_RATE

IsConstant(s, k) == \A i \in 1..Len(s) : s[i] = k

\* round(n * target / source), halves away from zero
RoundedLen(n, rate) == (2 * n * SAMPLE_RATE + rate) \div (2 * rate)

Abs(x) == IF x < 0 THEN -x ELSE x

ChannelMsg == "The channel count is required to be one, at least for now"

-----------------------------------------------------------------------------
(* The claims *)

\* C1: resampling a non-empty constant sequence [k, k, ...] at a rate other
\* than 16000 Hz yields a buffer whose samples all equal k.
C1_ConstantStaysConstant ==
    (Resampled /\ Len(audio.samples) > 0
        /\ IsConstant(audio.samples, audio.samples[1]))
      => IsConstant(audio_buf, audio.samples[1])

\* C2: the number of samples the resampling branch collects differs from
\* round(len(S) * 16000 / source_rate) by at most one.
C2_LengthWithinOne ==
    Resampled
      => Abs(Len(audio_buf) - RoundedLen(Len(audio.samples), audio.rate)) <= 1

\* C3: for a mono file at 16000 Hz the buffer handed to speech_to_text is
\* exactly the decoded sequence, and no interpolation state was ever built
\* or advanced.
C3_PassthroughIdentity ==
    (audio.channels = 1 /\ audio.rate = SAMPLE_RATE)
      => /\ interp = [left |-> 0, right |-> 0] /\ ival = 0 /\ srcNext = None
         /\ pc = "stt" => audio_buf = audio.samples
         /\ sttArg # <<>> => sttArg = <<audio.samples>>

C3_Witness ==
    /\ audio.rate = SAMPLE_RATE
    /\ Len(audio.samples) >= 2
    /\ audio.samples[1] # audio.samples[2]
    /\ sttArg = <<audio.samples>>
    /\ pc = "print"

\* C4 as stated: whenever the directory holds exactly one regular pb file and
\* exactly one regular scorer file, the scan ends with that pair selected.
C4_OnePbOneScorer ==
    (ScanEnded /\ Cardinality(PbIdx) = 1 /\ Cardinality(ScorerIdx) = 1)
      => /\ graph_name = PathOf(entries[Max(PbIdx)])
         /\ scorer_name = PathOf(entries[Max(ScorerIdx)])

\* C4 amended: whenever the directory holds exactly one regular pb file,
\* exactly one regular scorer file and no regular pbmm or tflite file, the
\* scan ends with that pair selected, in whatever order the entries come.
C4_OnlyModelFileIsThePb ==
    (ScanEnded /\ Cardinality(PbIdx) = 1 /\ Cardinality(ScorerIdx) = 1
        /\ ModelIdx = PbIdx)
      => /\ graph_name = PathOf(entries[Max(PbIdx)])
         /\ scorer_name = PathOf(entries[Max(ScorerIdx)])

C4_Witness ==
    /\ ScanEnded
    /\ Cardinality(PbIdx) = 1 /\ Cardinality(ScorerIdx) = 1 /\ ModelIdx = PbIdx
    /\ Len(entries) >= 3
    /\ Max(PbIdx) < Max(ScorerIdx)
    /\ \E i \in 1..Len(entries) : entries[i].kind = "dir" /\ entries[i].ext = "pb"
    /\ graph_name = PathOf(entries[Max(PbIdx)])

\* C5: with two or more regular files of extension pb, pbmm or tflite the
\* scan ends with the last of them in enumeration order selected; likewise
\* for two or more scorer files and the scorer slot.
C5_LastMatchWins ==
    ScanEnded
      => /\ Cardinality(ModelIdx) >= 2
              => graph_name = PathOf(entries[Max(ModelIdx)])
         /\ Cardinality(ScorerIdx) >= 2
              => scorer_name = PathOf(entries[Max(ScorerIdx)])

C5_Witness ==
    /\ ScanEnded
    /\ Cardinality(ModelIdx) >= 2
    /\ Max(ModelIdx) < Len(entries)
    /\ graph_name = PathOf(entries[Max(ModelIdx)])
    /\ graph_name # PathOf(entries[1])

\* C6: when the enumeration holds no regular pb, pbmm or tflite file, the
\* scan ends with graph_name = <dir>/output_graph.pb, whatever else the
\* directory holds, and that is the path load_from_files is called with.
C6_FallbackGraph ==
    ModelIdx = {}
      => /\ ScanEnded => graph_name = [name |-> "output_graph", ext |-> "pb"]
         /\ pc \in {"scorer", "open", "reader", "chan", "rate", "collect",
                    "conv", "stt", "print", "done"}
              => engine.graph = [name |-> "output_graph", ext |-> "pb"]
         /\ engine.graph \in {NoPath, [name |-> "output_graph", ext |-> "pb"]}

C6_Witness ==
    /\ ModelIdx = {}
    /\ ScorerIdx # {}
    /\ \E i \in 1..Len(entries) : entries[i].kind = "file" /\ entries[i].ext = "txt"
    /\ pc = "failed" /\ panicMsg = "load_from_files"
    /\ engine.graph = [name |-> "output_graph", ext |-> "pb"]

\* C7: when the audio file declares a channel count other than 1, the
\* channel check panics; control never passes it, no sample is pulled or
\* collected, speech_to_text is never called and no result line is printed.
C7_NotMonoFails ==
    /\ [](audio.channels # 1
            => /\ pc \notin {"rate", "collect", "conv", "stt", "print", "done"}
               /\ srcPos = 0 /\ srcNext = None /\ audio_buf = <<>>
               /\ sttArg = <<>>
               /\ \A i \in 1..Len(stdout) : stdout[i].fmt # "{}")
    /\ [][(pc = "chan" /\ audio.channels # 1)
            => (pc' = "failed" /\ panicMsg' = ChannelMsg)]_vars

C7_Witness ==
    /\ audio.channels = 2
    /\ Len(audio.samples) > 0
    /\ pc = "failed"
    /\ panicMsg = ChannelMsg

\* C8: the stages are entered in the order Start, ModelSelected,
\* EngineLoaded, AudioDecoded, Resampled, Transcribed, Done, one at a time
\* and never again; every panic leads straight to Failed; Done and Failed
\* are left by no step; and every run reaches Done or Failed.
C8_LinearFailFast ==
    /\ [][ /\ pc \notin Terminal
           /\ \/ pc' = "failed"
              \/ StageRank(StageOf(pc')) = StageRank(StageOf(pc))
              \/ StageRank(StageOf(pc')) = StageRank(StageOf(pc)) + 1
           /\ (pc' = "failed") <=> (panicMsg' # panicMsg)
           /\ (pc = "arg1" /\ argc < 1) => pc' = "failed"
           /\ (pc = "arg2" /\ argc < 2) => pc' = "failed"
           /\ (pc = "chan" /\ audio.channels # 1) => pc' = "failed" ]_vars
    /\ [](pc = "failed" <=> panicMsg # "")
    /\ <>(pc \in Terminal)

C8_Witness ==
    /\ pc = "done"
    /\ audio.rate # SAMPLE_RATE
    /\ scorer_name # NoPath
    /\ Len(audio_buf) > 0

\* C9 as stated: in every run that reaches Done, standard output holds the
\* transcript line and nothing else.
C9_OnlyTheTranscript ==
    pc = "done"
      => stdout = <<[fmt |-> "{}", path |-> NoPath, text |-> result]>>

\* C9 amended: in every run that reaches Done, standard output holds the
\* transcript returned by the engine as its last line, written once; it is
\* the only line when no scorer was selected, and it is preceded by exactly
\* the one line "Using external scorer <path>" when a scorer was selected.
C9_TranscriptLast ==
    pc = "done"
      => /\ result \in Transcripts
         /\ stdout =
              (IF scorer_name = NoPath
                 THEN <<>>
                 ELSE <<[fmt |-> "Using external scorer", path |-> scorer_name,
                         text |-> ""]>>)
              \o <<[fmt |-> "{}", path |-> NoPath, text |-> result]>>

C9_Witness ==
    /\ pc = "done"
    /\ scorer_name # NoPath
    /\ Len(stdout) = 2
    /\ stdout[2].text = result

\* C10: one iteration of the scan on an enumeration error, a non-file, a
\* file without extension or with an extension other than pb, pbmm, tflite
\* and scorer changes neither slot; on a regular scorer file it leaves
\* graph_name alone; on a regular pb, pbmm or tflite file it leaves
\* scorer_name alone.
C10_ScanFrame ==
    [][(pc = "scan" /\ idx' = idx + 1)
         => LET e == entries[idx + 1] IN
              /\ (~IsModelFile(e) /\ ~IsScorerFile(e))
                    => UNCHANGED <<graph_name, scorer_name>>
              /\ IsScorerFile(e) => UNCHANGED graph_name
              /\ IsModelFile(e) => UNCHANGED scorer_name]_vars

C10_Witness ==
    /\ pc = "scan"
    /\ idx = 3
    /\ IsModelFile(entries[1]) /\ IsScorerFile(entries[2])
    /\ entries[3].kind = "dir" /\ entries[3].ext = "scorer"
    /\ graph_name = PathOf(entries[1])
    /\ scorer_name = PathOf(entries[2])
====
